---- MODULE Spec2Model ----
(***************************************************************************)
(* Identity lifecycle of blocktrust-v2: the KYC routes (init, status,      *)
(* webhook, mint), the ledger mint orchestration and the MFA verifier,     *)
(* as request handlers running on concurrent workers against one table.   *)
(* A handler is cut only where it talks to the database or to the ledger:  *)
(* every SELECT (with the provider calls that follow it) is one step and   *)
(* every UPDATE + commit (with what follows it) is one step.               *)
(***************************************************************************)
EXTENDS Integers, Sequences, FiniteSets, TLC

VARIABLES users, mfa, bio, chain, pending, req, order, nreq, spent, tokens

vars == <<users, mfa, bio, chain, pending, req, order, nreq, spent, tokens>>

\* ---------------------------------------------------------------- bounds
MaxRequests == 4

\* ------------------------------------------------------------ the domain
Users == {1, 2}
Slots == {1, 2}

BioA == "test-bio-hash-1-12345678901234567890"
BioB == "test-bio-hash-2-12345678901234567890"
BioShort == "short"
BioHashes == {BioA, BioB}

NoFingerprint == <<>>
NoAddress == [key |-> <<>>, cs |-> "none"]

\* ------------------------------------------------------- pure functions
validate_bio_hash(bio_hash) ==
    IF bio_hash = "" THEN FALSE
    ELSE IF Len(bio_hash) < 32 THEN FALSE
    ELSE TRUE

\* the salt taken from what the program holds at the time of the call
generate_deterministic_address_salted(bio_hash) ==
    [key |-> <<"pbkdf2", bio_hash,
               IF nreq % 2 = 0 THEN "blocktrust-deterministic" ELSE "blocktrust-session">>,
     cs |-> "checksum"]

\* digests, derived keys and addresses are terms: sha256(h) is the digest of h,
\* <<"pbkdf2", h, salt>> the key derived from h, and an address value is the
\* address of the account of the key named in its key field, in a letter case.
\* A term names its argument without giving it back: the functions are one-way
generate_deterministic_address(bio_hash) ==
    [key |-> <<"pbkdf2", bio_hash, "blocktrust-deterministic">>, cs |-> "checksum"]

lower(addr) == [addr EXCEPT !.cs = "lower"]

sha256(bio_hash) == <<"sha256", bio_hash>>

keccak(bio_hash) == <<"keccak", bio_hash>>

\* ------------------------------------------------------------- the table
NewUser ==
    [kyc_status |-> "NULL", applicant_id |-> 0,
     bio_hash_fingerprint |-> NoFingerprint, wallet_address |-> NoAddress,
     nft_token_id |-> 0, nft_tx_hash |-> 0]

\* ------------------------------------------------------------ the ledger
\* chain[i] is the mined transaction of minter nonce i-1; its hash is i.
getActiveTokenByBioHash(bh_bytes) ==
    LET hits == {i \in 1..Len(chain) : chain[i].ok /\ chain[i].bio_hash_bytes = bh_bytes}
    IN  IF hits = {} THEN 0 ELSE CHOOSE i \in hits : \A j \in hits : i >= j

get_transaction_count == Len(chain)

\* ---------------------------------------------------------- MFA values
\* a presented token: a time-based code (of a secret, x time steps away from
\* now) or a backup code (x = 1 written XXXX-XXXX, x = 0 without the dash)
NoToken == [kind |-> "none", v |-> 0, x |-> 0]
TotpToken(secret, drift) == [kind |-> "totp", v |-> secret, x |-> drift]
BackupCode(n) == [kind |-> "code", v |-> n, x |-> 1]

\* issued: the plain codes the record was last enabled with; the program
\* stores only their hashes, the properties need to know whose they are
NoMfa == [mfa_enabled |-> FALSE, mfa_secret |-> 0, backup_codes |-> <<>>,
          issued |-> <<>>]

\* ---------------------------------------------------- session credentials
\* the payload of a signed token: whose it is and whether MFA was verified in
\* the login that issued it; tokens holds the payloads the program has signed
Payloads == [user_id : Users, mfa_verified : BOOLEAN]

generate_token(user_id, mfa_verified) ==
    [user_id |-> user_id, mfa_verified |-> mfa_verified]

\* decode_token and get_user_from_token: the signature verifies and the user
\* row exists
token_required(payload) == payload \in tokens

\* ------------------------------------------------------------- requests
Idle ==
    [op |-> "none", pc |-> "idle", user |-> 0, bio_hash |-> "",
     wallet |-> NoAddress, applicant |-> 0, review |-> "", sig |-> TRUE,
     seen_status |-> "", q |-> "", nonce |-> 0, tx |-> 0,
     resp |-> "", wrote |-> FALSE, audited |-> FALSE, sent |-> FALSE,
     token |-> 0, mfa_token |-> NoToken, hashed_codes |-> <<>>,
     replay |-> FALSE, mfa_verified |-> FALSE, mfa_enabled |-> FALSE,
     error |-> "", local_user_id |-> 0, secret |-> 0, codes |-> <<>>,
     gas_estimate |-> 0, gas_limit |-> 0]

InFlight(p) == req[p].pc \notin {"idle", "done"}

Other(p) == CHOOSE q \in Slots : q # p

NoOrder == [kind |-> "none", first |-> 0]

Answer(r, resp) == [r EXCEPT !.pc = "done", !.resp = resp]

\* a worker takes a new request: how it is ordered against the request the
\* other worker holds (in flight: overlapping; answered: this one is later).
\* req keeps the two latest requests: a free worker that never served comes
\* first, then the one whose answer is the older
Accept(p) ==
    /\ ~InFlight(p)
    /\ ~InFlight(Other(p)) =>
          \/ req[p].pc = "idle" /\ (req[Other(p)].pc = "idle" => p = 1)
          \/ req[p].pc = "done" /\ req[Other(p)].pc = "done"
                /\ (order.kind = "seq" => p = order.first)
                /\ (order.kind # "seq" => p = 1)
    /\ nreq < MaxRequests
    /\ nreq' = nreq + 1
    /\ UNCHANGED bio
    /\ order' = IF InFlight(Other(p)) THEN [kind |-> "overlap", first |-> Other(p)]
                ELSE IF req[Other(p)].pc = "done" THEN [kind |-> "seq", first |-> Other(p)]
                ELSE NoOrder

Init ==
    /\ users = [u \in Users |-> NewUser]
    /\ mfa = [u \in Users |-> NoMfa]
    /\ bio = [u \in Users |-> BioA]   \* one person holding both accounts
    /\ chain = <<>>
    /\ pending = <<>>
    /\ req = [p \in Slots |-> Idle]
    /\ order = NoOrder
    /\ nreq = 0
    /\ spent = {}
    /\ tokens = {generate_token(u, FALSE) : u \in Users}   \* issued by register

\* ------------------------------------------------------------ POST /init
\* the row read at the top only feeds the 'APPROVED' test, and no statement
\* of the program writes that status: the handler is one step
init_kyc(p, u) ==
    /\ Accept(p)
    /\ \E creds_ok \in BOOLEAN, created \in BOOLEAN, access_token \in BOOLEAN :
         LET r == [Idle EXCEPT !.op = "init", !.user = u,
                               !.seen_status = users[u].kyc_status]
             saved == [r EXCEPT !.applicant = nreq + 1, !.wrote = TRUE]
         IN  IF ~creds_ok
             THEN /\ req' = [req EXCEPT ![p] = Answer(r, "config_invalid")]
                  /\ UNCHANGED users
             ELSE IF users[u].kyc_status = "APPROVED"
             THEN /\ req' = [req EXCEPT ![p] =
                        Answer([r EXCEPT !.token = users[u].nft_token_id],
                               "already_approved")]
                  /\ UNCHANGED users
             ELSE IF ~created
             THEN /\ req' = [req EXCEPT ![p] = Answer(r, "init_error")]
                  /\ UNCHANGED users
             ELSE /\ users' = [users EXCEPT ![u].applicant_id = nreq + 1,
                                            ![u].kyc_status = "PENDING"]
                  /\ req' = [req EXCEPT ![p] =
                        IF ~access_token THEN Answer(saved, "token_error")
                        ELSE Answer([saved EXCEPT !.audited = TRUE], "success")]
    /\ UNCHANGED <<mfa, chain, pending, spent, tokens>>

\* the UPDATE ... SET kyc_status = 'COMPLETED' shared by status and webhook;
\* the fingerprint column is unique, so the statement raises when another
\* row already holds the value
\* no constraint on the column: every UPDATE goes through
UniqueViolation_never(u, fingerprint) == FALSE

UniqueViolation(u, fingerprint) ==
    \E v \in Users : v # u /\ users[v].bio_hash_fingerprint = fingerprint

\* the derived key kept in place of the fingerprint
SetCompleted_with_key(u, bio_hash) ==
    [users EXCEPT ![u].kyc_status = "COMPLETED",
                  ![u].bio_hash_fingerprint =
                        generate_deterministic_address(bio_hash).key,
                  ![u].wallet_address = generate_deterministic_address(bio_hash)]

\* the status set and the two derived columns left as they were
SetCompleted_status_only(u, bio_hash) ==
    [users EXCEPT ![u].kyc_status = "COMPLETED"]

SetCompleted(u, bio_hash) ==
    [users EXCEPT ![u].kyc_status = "COMPLETED",
                  ![u].bio_hash_fingerprint = sha256(bio_hash),
                  ![u].wallet_address = generate_deterministic_address(bio_hash)]

\* ------------------------------------------------------------ GET /status
\* the provider's empty answer not looked at: the handler goes on with it
status_unavailable_never(sumsub_status) == FALSE

\* get_applicant_status gave nothing: the query could not complete
status_unavailable(sumsub_status) == sumsub_status = ""

\* the stored status not looked at: every completed answer is written
needs_completion_always(kyc_status) == TRUE

\* 'Atualiza dados no banco se necessario'
needs_completion(kyc_status) == kyc_status # "COMPLETED"

get_kyc_status(p, u) ==
    /\ Accept(p)
    /\ \E reviewStatus \in {"", "pending", "completed", "rejected"},
          bio_hash \in {"", bio[u]} :
         LET r == [Idle EXCEPT !.op = "status", !.user = u,
                               !.applicant = users[u].applicant_id,
                               !.seen_status = users[u].kyc_status,
                               !.review = reviewStatus]
         IN  req' = [req EXCEPT ![p] =
               IF users[u].applicant_id = 0 THEN Answer([r EXCEPT !.review = ""], "not_initiated")
               ELSE IF status_unavailable(reviewStatus) THEN Answer(r, "status_error")
               ELSE IF reviewStatus # "completed" THEN Answer(r, "status")
               ELSE IF bio_hash = "" THEN Answer(r, "no_biohash")
               ELSE IF needs_completion(users[u].kyc_status)
                    THEN [r EXCEPT !.pc = "status_update", !.bio_hash = bio_hash]
               ELSE Answer([r EXCEPT !.bio_hash = bio_hash], "ready_for_mint")]
    /\ UNCHANGED <<users, mfa, chain, pending, spent, tokens>>

get_kyc_status_update(p) ==
    /\ req[p].pc = "status_update"
    /\ IF UniqueViolation(req[p].user, sha256(req[p].bio_hash))
       THEN /\ req' = [req EXCEPT ![p] = Answer(req[p], "internal_error")]
            /\ UNCHANGED users
       ELSE /\ users' = SetCompleted(req[p].user, req[p].bio_hash)
            /\ req' = [req EXCEPT ![p] =
                  Answer([req[p] EXCEPT !.wrote = TRUE, !.audited = TRUE],
                         "ready_for_mint")]
    /\ UNCHANGED <<mfa, bio, chain, pending, order, nreq, spent, tokens>>

\* --------------------------------------------------------- POST /webhook
UserByApplicant(applicant_id) ==
    IF \E u \in Users : users[u].applicant_id = applicant_id
    THEN CHOOSE u \in Users : users[u].applicant_id = applicant_id
    ELSE 0

\* the applicant ids a delivery can name: none, the one of a record, one that
\* no record holds
ApplicantInputs == {0, nreq + 1} \cup {users[u].applicant_id : u \in Users}

\* the gate left open: the handler goes on whatever the verifier says
signature_rejected_never(sig) == FALSE

signature_rejected(sig) == ~sig

kyc_webhook(p, sig, applicantId, reviewStatus) ==
    /\ applicantId \in ApplicantInputs
    /\ Accept(p)
    /\ LET u == UserByApplicant(applicantId)
           r == [Idle EXCEPT !.op = "webhook", !.sig = sig,
                             !.applicant = applicantId, !.review = reviewStatus]
           found == [r EXCEPT !.user = u, !.seen_status = users[u].kyc_status]
       IN  \E bio_hash \in {""} \cup (IF u = 0 THEN {} ELSE {bio[u]}) :
             req' = [req EXCEPT ![p] =
               IF signature_rejected(sig) THEN Answer(r, "invalid_signature")
               ELSE IF applicantId = 0 THEN Answer(r, "applicant_required")
               ELSE IF u = 0 THEN Answer(r, "user_not_found")
               ELSE IF reviewStatus = "completed"
                    THEN IF bio_hash = "" THEN Answer(found, "processed")
                         ELSE [found EXCEPT !.pc = "webhook_update",
                                            !.bio_hash = bio_hash]
               ELSE IF reviewStatus = "rejected"
                    THEN [found EXCEPT !.pc = "webhook_update"]
               ELSE Answer(found, "processed")]
    /\ UNCHANGED <<users, mfa, chain, pending, spent, tokens>>

kyc_webhook_update(p) ==
    /\ req[p].pc = "webhook_update"
    /\ IF req[p].review = "completed"
       THEN IF UniqueViolation(req[p].user, sha256(req[p].bio_hash))
            THEN /\ req' = [req EXCEPT ![p] = Answer(req[p], "internal_error")]
                 /\ UNCHANGED users
            ELSE /\ users' = SetCompleted(req[p].user, req[p].bio_hash)
                 /\ req' = [req EXCEPT ![p] =
                       Answer([req[p] EXCEPT !.wrote = TRUE, !.audited = TRUE],
                              "processed")]
       ELSE /\ users' = [users EXCEPT ![req[p].user].kyc_status = "REJECTED"]
            /\ req' = [req EXCEPT ![p] =
                  Answer([req[p] EXCEPT !.wrote = TRUE, !.audited = TRUE],
                         "processed")]
    /\ UNCHANGED <<mfa, bio, chain, pending, order, nreq, spent, tokens>>

\* -------------------------------------------------------- POST /mint-nft
\* request bodies: the derived address as derived and in lower case, another
\* person's hash with its address, a foreign address, a hash that is too short
MintInputs ==
    {<<BioA, generate_deterministic_address(BioA)>>,
     <<BioA, lower(generate_deterministic_address(BioA))>>,
     <<BioB, generate_deterministic_address(BioB)>>,
     <<BioA, generate_deterministic_address(BioB)>>,
     <<BioShort, generate_deterministic_address(BioA)>>}

\* the cached token id not looked at: every request mints
already_minted_never(nft_token_id) == FALSE

already_minted(nft_token_id) == nft_token_id # 0

\* the status not looked at: a record in any status goes on to the mint
kyc_not_approved_never(kyc_status) == FALSE

kyc_not_approved(kyc_status) == kyc_status # "COMPLETED"

\* the addresses not compared: any wallet address goes on
address_inconsistent_never(wallet_address, expected_address) == FALSE

\* the addresses compared as written, letter case included
address_inconsistent_exact(wallet_address, expected_address) ==
    wallet_address # expected_address

address_inconsistent(wallet_address, expected_address) ==
    lower(wallet_address) # lower(expected_address)

mint_identity_nft_endpoint(p, payload, bio_hash, wallet_address) ==
    /\ Accept(p)
    /\ LET u == payload.user_id
           r == [Idle EXCEPT !.op = "mint", !.user = u, !.bio_hash = bio_hash,
                             !.wallet = wallet_address,
                             !.mfa_verified = payload.mfa_verified,
                             !.mfa_enabled = mfa[u].mfa_enabled]
           row == [r EXCEPT !.seen_status = users[u].kyc_status,
                            !.applicant = users[u].applicant_id]
       IN  req' = [req EXCEPT ![p] =
             IF ~token_required(payload)
                  THEN Answer([Idle EXCEPT !.op = "mint"], "unauthorized")
             ELSE IF ~validate_bio_hash(bio_hash) THEN Answer(r, "invalid_biohash")
             ELSE IF address_inconsistent(wallet_address,
                                          generate_deterministic_address(bio_hash))
                  THEN Answer(r, "address_mismatch")
             ELSE IF kyc_not_approved(users[u].kyc_status)
                  THEN Answer(row, "kyc_not_approved")
             ELSE IF already_minted(users[u].nft_token_id)
                  THEN Answer([row EXCEPT !.token = users[u].nft_token_id],
                              "already_minted")
             ELSE [row EXCEPT !.pc = "mint_query"]]
    /\ UNCHANGED <<users, mfa, chain, pending, spent, tokens>>

\* the result of a mint_identity_nft call that raised or found a token:
\* success False with the text of the error, which the endpoint answers as
\* 500 'Erro no mint' with the text in details
MintFailed(r, error) == Answer([r EXCEPT !.error = error], "mint_error")

\* the minter key looked for only after the contract was asked
mint_query_key_last(p) ==
    /\ req[p].pc = "mint_query"
    /\ \E configured \in BOOLEAN, query_raises \in BOOLEAN :
         LET existing_token_id == getActiveTokenByBioHash(keccak(req[p].bio_hash))
             asked == [req[p] EXCEPT !.q =
                         IF query_raises THEN "masked"
                         ELSE IF existing_token_id > 0 THEN "found" ELSE "none"]
         IN  req' = [req EXCEPT ![p] =
               IF ~query_raises /\ existing_token_id > 0
                    THEN MintFailed(asked, "active_token_exists")
               ELSE IF ~configured THEN MintFailed(asked, "not_configured")
               ELSE [asked EXCEPT !.pc = "mint_nonce"]]
    /\ UNCHANGED <<users, mfa, bio, chain, pending, order, nreq, spent, tokens>>

\* mint_identity_nft: connect, load the minter key, ask the contract for an
\* active token of this bio hash; a raising call is taken for "no token".
\* q keeps what the ledger held: "none", "found", or "masked" when the call
\* raised although an active token exists
mint_query(p) ==
    /\ req[p].pc = "mint_query"
    /\ \E configured \in BOOLEAN, query_raises \in BOOLEAN :
         LET existing_token_id == getActiveTokenByBioHash(keccak(req[p].bio_hash))
         IN  req' = [req EXCEPT ![p] =
               IF ~configured THEN MintFailed(req[p], "not_configured")
               ELSE IF ~query_raises /\ existing_token_id > 0
                    THEN MintFailed([req[p] EXCEPT !.q = "found"], "active_token_exists")
               ELSE [req[p] EXCEPT !.pc = "mint_nonce",
                       !.q = IF existing_token_id > 0 THEN "masked" ELSE "none"]]
    /\ UNCHANGED <<users, mfa, bio, chain, pending, order, nreq, spent, tokens>>

\* what estimate_gas gives: NoEstimate when the call raises, else the gas of
\* a transfer, of a mint, one divisible by 5, and one above the default
NoEstimate == 0
MintEstimate == 100001
GasEstimates == {NoEstimate, 21000, MintEstimate, 250000, 500003}

\* the estimate taken as the limit, without the margin
gas_limit_unpadded(gas_estimate) ==
    IF gas_estimate = NoEstimate THEN 500000 ELSE gas_estimate

\* int(gas_estimate * 1.2), or the default when estimate_gas raised
gas_limit(gas_estimate) ==
    IF gas_estimate = NoEstimate THEN 500000 ELSE (gas_estimate * 12) \div 10

\* the nonce of the minter account is read, then the gas is estimated
mint_nonce(p, gas_estimate) ==
    /\ req[p].pc = "mint_nonce"
    /\ req' = [req EXCEPT ![p].pc = "mint_send",
                          ![p].nonce = get_transaction_count,
                          ![p].gas_estimate = gas_estimate,
                          ![p].gas_limit = gas_limit(gas_estimate)]
    /\ UNCHANGED <<users, mfa, bio, chain, pending, order, nreq, spent, tokens>>

\* send_raw_transaction: the node takes the transaction when its nonce is the
\* next one and no transaction of the minter is waiting with that nonce
mint_send(p) ==
    /\ req[p].pc = "mint_send"
    /\ IF req[p].nonce = Len(chain) /\ pending = <<>>
       THEN /\ pending' = <<[bio_hash_bytes |-> keccak(req[p].bio_hash),
                             to |-> req[p].wallet, user |-> req[p].user,
                             ok |-> FALSE, nonce |-> req[p].nonce,
                             gas |-> req[p].gas_limit]>>
            /\ req' = [req EXCEPT ![p].pc = "mint_wait", ![p].sent = TRUE,
                                  ![p].tx = req[p].nonce + 1]
       ELSE /\ req' = [req EXCEPT ![p] = MintFailed(req[p], "send_raised")]
            /\ UNCHANGED pending
    /\ UNCHANGED <<users, mfa, bio, chain, order, nreq, spent, tokens>>

\* wait_for_transaction_receipt: the receipt once the transaction is mined,
\* the timeout while it is not
mint_wait(p) ==
    /\ req[p].pc = "mint_wait"
    /\ req' = [req EXCEPT ![p] =
          IF req[p].tx <= Len(chain)
          THEN IF chain[req[p].tx].ok
               THEN [req[p] EXCEPT !.pc = "mint_update", !.token = req[p].tx]
               ELSE MintFailed(req[p], "transaction_failed")
          ELSE MintFailed(req[p], "time_exhausted")]
    /\ UNCHANGED <<users, mfa, bio, chain, pending, order, nreq, spent, tokens>>

\* the UPDATE left out: success is answered and nothing is cached
mint_update_unwritten(p) ==
    /\ req[p].pc = "mint_update"
    /\ req' = [req EXCEPT ![p] = Answer([req[p] EXCEPT !.audited = TRUE], "success")]
    /\ UNCHANGED <<users, mfa, bio, chain, pending, order, nreq, spent, tokens>>

mint_update(p) ==
    /\ req[p].pc = "mint_update"
    /\ users' = [users EXCEPT ![req[p].user].nft_token_id = req[p].token,
                              ![req[p].user].nft_tx_hash = req[p].tx]
    /\ req' = [req EXCEPT ![p] =
          Answer([req[p] EXCEPT !.wrote = TRUE, !.audited = TRUE], "success")]
    /\ UNCHANGED <<mfa, bio, chain, pending, order, nreq, spent, tokens>>

\* ------------------------------------------------ POST /recover-identity
\* the row a SELECT ... WHERE bio_hash_fingerprint = %s OR wallet_address = %s
\* fetches first, 0 when there is none
LocalData(bio_hash_fingerprint, wallet_address) ==
    LET rows == {u \in Users :
                   \/ users[u].bio_hash_fingerprint = bio_hash_fingerprint
                   \/ users[u].wallet_address = wallet_address}
    IN  IF rows = {} THEN 0 ELSE CHOOSE u \in rows : \A v \in rows : u <= v

\* up to the end of validate_wallet_for_biohash: the address it is given is
\* the one derived from the same bio hash, so its comparison passes; then the
\* contract is asked. A call that raises gives valid True without token and
\* without identity data; a call that returns gives valid True with whatever
\* token id came back
recover_identity(p, payload, bio_hash) ==
    /\ Accept(p)
    /\ \E configured \in BOOLEAN, call_raises \in BOOLEAN :
         LET r == [Idle EXCEPT !.op = "recover", !.user = payload.user_id,
                               !.bio_hash = bio_hash]
             wallet_address == generate_deterministic_address(bio_hash)
             token_id == getActiveTokenByBioHash(keccak(bio_hash))
         IN  req' = [req EXCEPT ![p] =
               IF ~token_required(payload)
                    THEN Answer([Idle EXCEPT !.op = "recover"], "unauthorized")
               ELSE IF ~validate_bio_hash(bio_hash) THEN Answer(r, "invalid_biohash")
               ELSE IF ~configured
                    THEN Answer([r EXCEPT !.wallet = wallet_address], "not_found")
               ELSE IF call_raises
                    THEN [r EXCEPT !.pc = "recover_lookup", !.q = "raised",
                                   !.wallet = wallet_address]
               ELSE [r EXCEPT !.pc = "recover_lookup", !.token = token_id,
                              !.wallet = wallet_address,
                              !.q = IF token_id > 0 THEN "found" ELSE "none"]]
    /\ UNCHANGED <<users, mfa, chain, pending, spent, tokens>>

\* the SELECT of the local row and the building of the answer, which reads
\* the identity data that a raising contract call did not provide
recover_lookup(p) ==
    /\ req[p].pc = "recover_lookup"
    /\ LET local_data == LocalData(sha256(req[p].bio_hash), req[p].wallet)
       IN  req' = [req EXCEPT ![p] =
             IF req[p].q = "raised" THEN Answer(req[p], "internal_error")
             ELSE Answer([req[p] EXCEPT !.local_user_id = local_data], "found")]
    /\ UNCHANGED <<users, mfa, bio, chain, pending, order, nreq, spent, tokens>>

\* ------------------------------------------------------------ the ledger
\* the waiting transaction is mined; its execution succeeds (the mint event
\* carries the new token id) or fails (receipt status 0)
Mine ==
    /\ pending # <<>>
    /\ \E ok \in BOOLEAN :
         chain' = Append(chain, [pending[1] EXCEPT !.ok = ok])
    /\ pending' = <<>>
    /\ UNCHANGED <<users, mfa, bio, req, order, nreq, spent, tokens>>

\* ------------------------------------------------------------ MFAService
BackupCodeCount == 8
TotpWindow == 1

verify_totp(secret, token, window) ==
    IF secret = 0 \/ token.kind = "none" THEN FALSE
    ELSE token.kind = "totp" /\ token.v = secret /\ token.x <= window

generate_backup_codes(count, seed) ==
    [i \in 1..count |-> BackupCode(10 * seed + i)]

clean_code(code) == [code EXCEPT !.x = 0]

hashpw(clean) == <<"bcrypt", clean.kind, clean.v>>

checkpw(clean, hashed) == hashed = <<"bcrypt", clean.kind, clean.v>>

hash_backup_codes(codes) ==
    [i \in DOMAIN codes |-> hashpw(clean_code(codes[i]))]

verify_backup_code(code, hashed_codes) ==
    IF code.kind = "none" \/ hashed_codes = <<>> THEN FALSE
    ELSE \E i \in DOMAIN hashed_codes : checkpw(clean_code(code), hashed_codes[i])

RECURSIVE updated_codes(_, _)
updated_codes(used_code, hashed_codes) ==
    IF hashed_codes = <<>> THEN <<>>
    ELSE IF ~checkpw(clean_code(used_code), Head(hashed_codes))
         THEN <<Head(hashed_codes)>> \o updated_codes(used_code, Tail(hashed_codes))
         ELSE updated_codes(used_code, Tail(hashed_codes))

\* ------------------------------------------------------- POST /mfa/setup
\* a fresh secret and the backup codes, returned and not stored
setup_mfa(p, u, secret, seed) ==
    /\ Accept(p)
    /\ LET r == [Idle EXCEPT !.op = "setup", !.user = u,
                             !.mfa_enabled = mfa[u].mfa_enabled]
       IN  req' = [req EXCEPT ![p] =
             IF mfa[u].mfa_enabled THEN Answer(r, "mfa_already_enabled")
             ELSE Answer([r EXCEPT !.secret = secret,
                                   !.codes = generate_backup_codes(BackupCodeCount, seed)],
                         "setup")]
    /\ UNCHANGED <<users, mfa, chain, pending, spent, tokens>>

\* ------------------------------------------------- POST /mfa/verify-setup
verify_setup(p, u, secret, token, backup_codes) ==
    /\ Accept(p)
    /\ LET r == [Idle EXCEPT !.op = "verify_setup", !.user = u, !.mfa_token = token]
       IN  IF ~verify_totp(secret, token, TotpWindow)
           THEN /\ req' = [req EXCEPT ![p] = Answer(r, "invalid_code")]
                /\ UNCHANGED mfa
           ELSE /\ mfa' = [mfa EXCEPT ![u] =
                      [mfa_enabled |-> TRUE, mfa_secret |-> secret,
                       issued |-> backup_codes,
                       backup_codes |-> hash_backup_codes(backup_codes)]]
                /\ req' = [req EXCEPT ![p] =
                      Answer([r EXCEPT !.wrote = TRUE], "mfa_enabled")]
    /\ spent' = IF verify_totp(secret, token, TotpWindow)
                THEN {c \in spent : c[1] # u} ELSE spent
    /\ UNCHANGED <<users, chain, pending, tokens>>

\* ------------------------------------------------------ POST /mfa/verify
\* the first check left out: every token goes on to the backup codes
totp_accepted_never(mfa_secret, token) == FALSE

\* verify_user_mfa's first check: a secret is stored and the token is a
\* time-based code of it
totp_accepted(mfa_secret, token) ==
    mfa_secret # 0 /\ verify_totp(mfa_secret, token, TotpWindow)

\* verify_user_mfa up to the point where the used backup code is removed
verify_mfa(p, u, token) ==
    /\ Accept(p)
    /\ LET r == [Idle EXCEPT !.op = "verify", !.user = u, !.mfa_token = token,
                             !.replay = (<<u, token.kind, token.v>> \in spent)]
       IN  req' = [req EXCEPT ![p] =
             IF ~mfa[u].mfa_enabled THEN Answer(r, "mfa_not_enabled")
             ELSE IF totp_accepted(mfa[u].mfa_secret, token)
                  THEN Answer(r, "totp")
             ELSE IF verify_backup_code(token, mfa[u].backup_codes)
                  THEN [r EXCEPT !.pc = "remove_used_backup_code",
                                 !.hashed_codes = mfa[u].backup_codes]
             ELSE Answer(r, "invalid_token")]
    /\ UNCHANGED <<users, mfa, chain, pending, spent, tokens>>

\* what the caller of verify_user_mfa does with (True, method): /mfa/verify
\* answers, login signs a token with the MFA claim, /mfa/disable goes on to
\* the UPDATE
Verified(r, method) ==
    IF r.op = "login" THEN Answer([r EXCEPT !.mfa_verified = TRUE], "login")
    ELSE IF r.op = "disable_mfa" THEN [r EXCEPT !.pc = "disable_update"]
    ELSE Answer(r, method)

Issued(r) ==
    IF r.op = "login" THEN {generate_token(r.user, TRUE)} ELSE {}

\* _remove_used_backup_code: the codes read by verify_user_mfa, without the
\* used one, are written back on a connection of their own
remove_used_backup_code(p) ==
    /\ req[p].pc = "remove_used_backup_code"
    /\ mfa' = [mfa EXCEPT ![req[p].user].backup_codes =
                  updated_codes(req[p].mfa_token, req[p].hashed_codes)]
    /\ req' = [req EXCEPT ![p] =
          Verified([req[p] EXCEPT !.wrote = TRUE, !.hashed_codes = <<>>],
                   "backup_code")]
    /\ spent' = spent \cup {<<req[p].user, req[p].mfa_token.kind, req[p].mfa_token.v>>}
    /\ tokens' = tokens \cup Issued(req[p])
    /\ UNCHANGED <<users, bio, chain, pending, order, nreq>>

\* the caller going on without a look at what verify_user_mfa returned
verify_user_mfa_unchecked(p) ==
    /\ req[p].pc = "verify_user_mfa"
    /\ req' = [req EXCEPT ![p] = Verified(req[p], "totp")]
    /\ tokens' = tokens \cup Issued(req[p])
    /\ UNCHANGED <<users, mfa, bio, chain, pending, order, nreq, spent>>

\* verify_user_mfa as called by login and by /mfa/disable: the SELECT of the
\* MFA columns and the checks on them
verify_user_mfa(p) ==
    /\ req[p].pc = "verify_user_mfa"
    /\ LET u == req[p].user
           token == req[p].mfa_token
           totp_ok == /\ mfa[u].mfa_enabled
                      /\ totp_accepted(mfa[u].mfa_secret, token)
       IN  /\ req' = [req EXCEPT ![p] =
                 IF ~mfa[u].mfa_enabled THEN Answer(req[p], "invalid_mfa")
                 ELSE IF totp_ok THEN Verified(req[p], "totp")
                 ELSE IF verify_backup_code(token, mfa[u].backup_codes)
                      THEN [req[p] EXCEPT !.pc = "remove_used_backup_code",
                                          !.hashed_codes = mfa[u].backup_codes]
                 ELSE Answer(req[p], "invalid_mfa")]
           /\ tokens' = tokens \cup (IF totp_ok THEN Issued(req[p]) ELSE {})
    /\ UNCHANGED <<users, mfa, bio, chain, pending, order, nreq, spent>>

\* ------------------------------------------------------ POST /auth/login
login(p, u, password_ok, mfa_token) ==
    /\ Accept(p)
    /\ LET r == [Idle EXCEPT !.op = "login", !.user = u, !.mfa_token = mfa_token,
                             !.mfa_enabled = mfa[u].mfa_enabled]
       IN  /\ req' = [req EXCEPT ![p] =
                 IF ~password_ok THEN Answer(r, "invalid_credentials")
                 ELSE IF mfa[u].mfa_enabled
                      THEN IF mfa_token = NoToken THEN Answer(r, "mfa_required")
                           ELSE [r EXCEPT !.pc = "verify_user_mfa"]
                 ELSE Answer(r, "login")]
           /\ tokens' = tokens \cup
                 (IF password_ok /\ (~mfa[u].mfa_enabled \/ mfa_token = NoToken)
                  THEN {generate_token(u, FALSE)} ELSE {})
    /\ UNCHANGED <<users, mfa, chain, pending, spent>>

\* ----------------------------------------------------- POST /mfa/disable
disable_mfa(p, payload, password_ok, token) ==
    /\ Accept(p)
    /\ LET u == payload.user_id
           r == [Idle EXCEPT !.op = "disable_mfa", !.user = u,
                             !.mfa_token = token,
                             !.mfa_verified = payload.mfa_verified,
                             !.mfa_enabled = mfa[u].mfa_enabled]
       IN  req' = [req EXCEPT ![p] =
             IF ~token_required(payload)
                  THEN Answer([Idle EXCEPT !.op = "disable_mfa"], "unauthorized")
             ELSE IF token = NoToken THEN Answer(r, "token_and_password_required")
             ELSE IF ~password_ok THEN Answer(r, "invalid_password")
             ELSE [r EXCEPT !.pc = "verify_user_mfa"]]
    /\ UNCHANGED <<users, mfa, chain, pending, spent, tokens>>

\* MFAService.disable_mfa: the UPDATE that clears the MFA columns
disable_update(p) ==
    /\ req[p].pc = "disable_update"
    /\ mfa' = [mfa EXCEPT ![req[p].user] = NoMfa]
    /\ req' = [req EXCEPT ![p] =
          Answer([req[p] EXCEPT !.wrote = TRUE], "mfa_disabled")]
    /\ UNCHANGED <<users, bio, chain, pending, order, nreq, spent, tokens>>

Secrets == {1, 2}

TokenInputs ==
    {TotpToken(1, 0), TotpToken(1, 1), TotpToken(1, 2), TotpToken(2, 0),
     BackupCode(11), clean_code(BackupCode(11)), BackupCode(12), BackupCode(99)}

NextMFA ==
    \/ \E p \in Slots, u \in Users, s \in Secrets, t \in TokenInputs :
          verify_setup(p, u, s, t, generate_backup_codes(BackupCodeCount, 1))
    \/ \E p \in Slots, u \in Users, t \in TokenInputs : verify_mfa(p, u, t)
    \/ \E p \in Slots : remove_used_backup_code(p)

SpecMFA == Init /\ [][NextMFA]_vars

\* one user setting MFA up with what /mfa/setup returned and then presenting
\* the time-based code and each of the backup codes
Seeds == {1, 2}

SetupTokens ==
    {TotpToken(1, 0), TotpToken(1, 1), TotpToken(1, 2)}
       \cup {generate_backup_codes(BackupCodeCount, 1)[i] : i \in 1..BackupCodeCount}
       \cup {generate_backup_codes(BackupCodeCount, 2)[i] : i \in 1..2}

NextSetup ==
    \/ \E p \in Slots, seed \in Seeds : setup_mfa(p, 1, 1, seed)
    \/ \E p \in Slots, seed \in Seeds :
          verify_setup(p, 1, 1, TotpToken(1, 0),
                       generate_backup_codes(BackupCodeCount, seed))
    \/ \E p \in Slots, t \in SetupTokens : verify_mfa(p, 1, t)
    \/ \E p \in Slots : remove_used_backup_code(p)

SpecSetup == Init /\ [][NextSetup]_vars

\* the credential-gated operations of one user with MFA: enabling it, logging
\* in, disabling it, and the identity's way from init to the mint
NextAuth ==
    \/ \E p \in Slots, t \in {TotpToken(1, 0), TotpToken(1, 2)} :
          verify_setup(p, 1, 1, t, generate_backup_codes(BackupCodeCount, 1))
    \/ \E p \in Slots, password_ok \in BOOLEAN,
          t \in {NoToken, TotpToken(1, 0), BackupCode(11), BackupCode(99)} :
          login(p, 1, password_ok, t)
    \/ \E p \in Slots : verify_user_mfa(p)
    \/ \E p \in Slots : remove_used_backup_code(p)
    \/ \E p \in Slots, mfa_verified \in BOOLEAN, password_ok \in BOOLEAN,
          c \in {NoToken, TotpToken(1, 0), BackupCode(11), BackupCode(99)} :
          disable_mfa(p, generate_token(1, mfa_verified), password_ok, c)
    \/ \E p \in Slots : disable_update(p)
    \/ \E p \in Slots : init_kyc(p, 1)
    \/ \E p \in Slots : get_kyc_status(p, 1)
    \/ \E p \in Slots : get_kyc_status_update(p)
    \/ \E p \in Slots, mfa_verified \in BOOLEAN :
          mint_identity_nft_endpoint(p, generate_token(1, mfa_verified), BioA,
                                     generate_deterministic_address(BioA))
    \/ \E p \in Slots : mint_query(p)
    \/ \E p \in Slots : mint_nonce(p, MintEstimate)
    \/ \E p \in Slots : mint_send(p)
    \/ \E p \in Slots : mint_wait(p)
    \/ \E p \in Slots : mint_update(p)
    \/ Mine

SpecAuth == Init /\ [][NextAuth]_vars

\* the operations that derive an address, with the bio hash the provider
\* holds for user 1 drawn from a hash of valid length and one that is too
\* short, and addresses presented in every letter case
InitDerive ==
    /\ users = [u \in Users |-> NewUser]
    /\ mfa = [u \in Users |-> NoMfa]
    /\ bio \in {[u \in Users |-> IF u = 1 THEN b ELSE BioA] : b \in {BioA, BioShort}}
    /\ chain = <<>>
    /\ pending = <<>>
    /\ req = [p \in Slots |-> Idle]
    /\ order = NoOrder
    /\ nreq = 0
    /\ spent = {}
    /\ tokens = {generate_token(u, FALSE) : u \in Users}

UpperCase(addr) == [addr EXCEPT !.cs = "upper"]

DeriveInputs ==
    {<<BioA, generate_deterministic_address(BioA)>>,
     <<BioA, lower(generate_deterministic_address(BioA))>>,
     <<BioA, UpperCase(generate_deterministic_address(BioA))>>,
     <<BioA, generate_deterministic_address(BioB)>>,
     <<BioShort, generate_deterministic_address(BioShort)>>}

NextDerive ==
    \/ \E p \in Slots : init_kyc(p, 1)
    \/ \E p \in Slots : get_kyc_status(p, 1)
    \/ \E p \in Slots : get_kyc_status_update(p)
    \/ \E p \in Slots, a \in 0..(MaxRequests + 1) :
          kyc_webhook(p, TRUE, a, "completed")
    \/ \E p \in Slots : kyc_webhook_update(p)
    \/ \E p \in Slots, i \in DeriveInputs :
          mint_identity_nft_endpoint(p, generate_token(1, FALSE), i[1], i[2])
    \/ \E p \in Slots : mint_query(p)
    \/ \E p \in Slots : mint_nonce(p, MintEstimate)
    \/ \E p \in Slots : mint_send(p)
    \/ \E p \in Slots : mint_wait(p)
    \/ \E p \in Slots : mint_update(p)
    \/ Mine
    \/ \E p \in Slots, b \in {BioA, BioShort} :
          recover_identity(p, generate_token(1, FALSE), b)
    \/ \E p \in Slots : recover_lookup(p)

SpecDerive == InitDerive /\ [][NextDerive]_vars

\* recovery next to the way of one identity from init to the mint
NextRecover ==
    \/ \E p \in Slots, t \in Payloads, b \in {BioA, BioB, BioShort} :
          recover_identity(p, t, b)
    \/ \E p \in Slots : recover_lookup(p)
    \/ \E p \in Slots : init_kyc(p, 1)
    \/ \E p \in Slots : get_kyc_status(p, 1)
    \/ \E p \in Slots : get_kyc_status_update(p)
    \/ \E p \in Slots :
          mint_identity_nft_endpoint(p, generate_token(1, FALSE), BioA,
                                     generate_deterministic_address(BioA))
    \/ \E p \in Slots : mint_query(p)
    \/ \E p \in Slots : mint_nonce(p, MintEstimate)
    \/ \E p \in Slots : mint_send(p)
    \/ \E p \in Slots : mint_wait(p)
    \/ \E p \in Slots : mint_update(p)
    \/ Mine

SpecRecover == Init /\ [][NextRecover]_vars

\* the mint of one identity under every answer of the gas estimation
NextGas ==
    \/ \E p \in Slots : init_kyc(p, 1)
    \/ \E p \in Slots : get_kyc_status(p, 1)
    \/ \E p \in Slots : get_kyc_status_update(p)
    \/ \E p \in Slots :
          mint_identity_nft_endpoint(p, generate_token(1, FALSE), BioA,
                                     generate_deterministic_address(BioA))
    \/ \E p \in Slots : mint_query(p)
    \/ \E p \in Slots, g \in GasEstimates : mint_nonce(p, g)
    \/ \E p \in Slots : mint_send(p)
    \/ \E p \in Slots : mint_wait(p)
    \/ \E p \in Slots : mint_update(p)
    \/ Mine

SpecGas == Init /\ [][NextGas]_vars

Next ==
    \/ \E p \in Slots, u \in Users : init_kyc(p, u)
    \/ \E p \in Slots, u \in Users : get_kyc_status(p, u)
    \/ \E p \in Slots : get_kyc_status_update(p)
    \/ \E p \in Slots, sig \in BOOLEAN, a \in 0..(MaxRequests + 1),
          rs \in {"pending", "completed", "rejected"} : kyc_webhook(p, sig, a, rs)
    \/ \E p \in Slots : kyc_webhook_update(p)
    \/ \E p \in Slots, t \in Payloads, i \in MintInputs :
          mint_identity_nft_endpoint(p, t, i[1], i[2])
    \/ \E p \in Slots : mint_query(p)
    \/ \E p \in Slots : mint_nonce(p, MintEstimate)
    \/ \E p \in Slots : mint_send(p)
    \/ \E p \in Slots : mint_wait(p)
    \/ \E p \in Slots : mint_update(p)
    \/ Mine

Spec == Init /\ [][Next]_vars

(***************************************************************************)
(* Claims                                                                  *)
(***************************************************************************)
Done(p) == req[p].pc = "done"

\* the request of worker s was accepted after the one of worker f was answered
Sequential(f, s) == f # s /\ order.kind = "seq" /\ order.first = f

Overlapping == order.kind = "overlap"

\* a mint request that passed validation and the checks on the record
MintPassed(p) ==
    /\ req[p].op = "mint"
    /\ req[p].pc # "done" \/ req[p].resp \in {"success", "mint_error"}

Lifecycle(row) ==
    IF row.nft_token_id # 0 THEN "MINTED"
    ELSE IF row.kyc_status = "NULL" THEN "UNINITIATED"
    ELSE row.kyc_status

\* C1: an identity whose mint is recorded (token id set) never has kyc status
\* PENDING.
C1_MintedNeverPending ==
    \A u \in Users :
        users[u].nft_token_id # 0 => users[u].kyc_status # "PENDING"

\* C2: every change of an identity's lifecycle state is UNINITIATED->PENDING,
\* PENDING->COMPLETED, PENDING->REJECTED or COMPLETED->MINTED.
C2_ForwardTransitionsOnly ==
    [][\A u \in Users :
         Lifecycle(users'[u]) # Lifecycle(users[u]) =>
            <<Lifecycle(users[u]), Lifecycle(users'[u])>> \in
               {<<"UNINITIATED", "PENDING">>, <<"PENDING", "COMPLETED">>,
                <<"PENDING", "REJECTED">>, <<"COMPLETED", "MINTED">>}]_vars

C4_ConcurrentMintsSubmitOnce ==
    (/\ Overlapping /\ MintPassed(1) /\ MintPassed(2)
     /\ req[1].user = req[2].user)
    => ~(req[1].sent /\ req[2].sent)

\* C5: the ledger holds at most one active token per bio hash, and a mint
\* submits its transaction only when the ledger held no active token for the
\* bio hash at the time of its query.
C5_OneActiveTokenPerFingerprint ==
    /\ \A i, j \in 1..Len(chain) :
          (chain[i].ok /\ chain[j].ok
           /\ chain[i].bio_hash_bytes = chain[j].bio_hash_bytes) => i = j
    /\ \A p \in Slots : (req[p].op = "mint" /\ req[p].sent) => req[p].q = "none"

\* C8: a delivery with an invalid or absent signature is answered in the step
\* that takes it, before any record is looked up, and no record changes.
C8_SignatureGate ==
    [][\A p \in Slots :
         (req'[p] # req[p] /\ req'[p].op = "webhook" /\ ~req'[p].sig)
         => /\ users' = users
            /\ req'[p].pc = "done" /\ req'[p].resp = "invalid_signature"
            /\ req'[p].user = 0 /\ req'[p].seen_status = ""
            /\ ~req'[p].wrote /\ ~req'[p].audited]_vars

\* an unsigned "rejected" / "completed" for the applicant of a PENDING record
C8_Witness ==
    \E p \in Slots, u \in Users :
        /\ req[p].op = "webhook" /\ ~req[p].sig /\ Done(p)
        /\ req[p].review \in {"completed", "rejected"}
        /\ req[p].applicant # 0 /\ users[u].applicant_id = req[p].applicant
        /\ users[u].kyc_status = "PENDING"

\* C9: of two verified "completed" deliveries for the same applicant, one after
\* the other, the first moving the record PENDING->COMPLETED, the second is
\* answered "processed", writes nothing and emits no audit event.
C9_SecondCompletedIsNoOp ==
    \A f, s \in Slots :
        (/\ Sequential(f, s) /\ Done(f) /\ Done(s)
         /\ req[f].op = "webhook" /\ req[s].op = "webhook"
         /\ req[f].sig /\ req[s].sig
         /\ req[f].review = "completed" /\ req[s].review = "completed"
         /\ req[f].applicant = req[s].applicant
         /\ req[f].seen_status = "PENDING" /\ req[f].wrote)
        => /\ req[s].resp = "processed"
           /\ ~req[s].wrote /\ ~req[s].audited

\* C10: of two overlapping verified deliveries for the same applicant at most
\* one applies a status transition to the record.
C10_OneConcurrentTransition ==
    (/\ Overlapping
     /\ req[1].op = "webhook" /\ req[2].op = "webhook"
     /\ req[1].sig /\ req[2].sig
     /\ req[1].applicant = req[2].applicant)
    => ~(req[1].wrote /\ req[2].wrote)

\* C6: once a verification with a backup code has succeeded, no verification
\* accepted afterwards with the same code succeeds (until codes are set up
\* again).
C6_BackupCodeSingleUse ==
    \A p \in Slots :
        (req[p].op = "verify" /\ req[p].replay)
        => req[p].pc = "done" /\ req[p].resp # "backup_code"

\* C7: of two overlapping verifications presenting the same backup code for
\* the same user, both answered, exactly one succeeded when the code was
\* stored.
C7_ConcurrentSameCodeOnce ==
    (/\ Overlapping /\ Done(1) /\ Done(2)
     /\ req[1].op = "verify" /\ req[2].op = "verify"
     /\ req[1].user = req[2].user
     /\ req[1].mfa_token.kind = "code"
     /\ clean_code(req[1].mfa_token) = clean_code(req[2].mfa_token)
     /\ "backup_code" \in {req[1].resp, req[2].resp})
    => req[1].resp # req[2].resp

\* C11: an init request on an identity past PENDING (COMPLETED, REJECTED or
\* minted) registers no applicant and leaves the record as it was.
C11_RepeatInitIsNoOp ==
    [][\A p \in Slots, u \in Users :
         (/\ req'[p] # req[p] /\ req'[p].op = "init" /\ req'[p].user = u
          /\ Lifecycle(users[u]) \in {"COMPLETED", "REJECTED", "MINTED"})
         => /\ users'[u] = users[u]
            /\ ~req'[p].wrote /\ req'[p].applicant = 0]_vars

\* the step in which worker p takes a mint request with a valid credential
MintTaken(p) ==
    /\ req[p].pc \in {"idle", "done"} /\ req'[p] # req[p]
    /\ req'[p].op = "mint" /\ req'[p].user # 0

\* C12: a mint request for an identity whose status is not COMPLETED is
\* answered with an error in the step that reads the record: no ledger call
\* is made and the record is unchanged.
C12_MintNeedsCompleted ==
    [][\A p \in Slots :
         (MintTaken(p) /\ users[req'[p].user].kyc_status # "COMPLETED")
         => /\ req'[p].pc = "done"
            /\ req'[p].resp \in {"invalid_biohash", "address_mismatch",
                                 "kyc_not_approved"}
            /\ req'[p].q = "" /\ ~req'[p].sent /\ ~req'[p].wrote
            /\ users' = users /\ chain' = chain /\ pending' = pending]_vars

\* a valid request answered kyc_not_approved on a PENDING record
C12_Witness ==
    \E p \in Slots :
        /\ req[p].op = "mint" /\ Done(p) /\ req[p].resp = "kyc_not_approved"
        /\ req[p].seen_status = "PENDING"
        /\ users[req[p].user].kyc_status = "PENDING"

C14_SensitiveNeedsMfaClaim ==
    \A p \in Slots :
        (/\ req[p].op \in {"mint", "disable_mfa"} /\ req[p].user # 0
         /\ req[p].mfa_enabled /\ ~req[p].mfa_verified)
        => /\ Done(p) /\ req[p].resp = "mfa_verification_required"
           /\ ~req[p].sent /\ ~req[p].wrote

\* C15: when the wait for the receipt of a submitted mint transaction times
\* out, the request is not answered as a failed mint, and a later request for
\* the identity submits a transaction only after a ledger query that showed
\* no active token for the bio hash.
C15_TimeoutIsAmbiguous ==
    [][\A p \in Slots :
         /\ (req[p].pc = "mint_wait" /\ req[p].tx > Len(chain)
             /\ req'[p].pc = "done")
            => req'[p].resp # "mint_error"
         /\ (/\ req[p].pc = "mint_send" /\ req'[p].sent
             /\ req[Other(p)].op = "mint" /\ req[Other(p)].user = req[p].user
             /\ req[Other(p)].error = "time_exhausted")
            => req[p].q = "none"]_vars

C17_FoundOnlyOnLedger ==
    \A p \in Slots :
        (req[p].op = "recover" /\ Done(p) /\ req[p].resp = "found")
        => /\ req[p].q = "found" /\ req[p].token \in 1..Len(chain)
           /\ chain[req[p].token].ok
           /\ chain[req[p].token].bio_hash_bytes = keccak(req[p].bio_hash)

\* C18: when the status query to the provider cannot complete, the status
\* request is answered with an error in the step that read the record, and
\* the record is as it was.
C18_StatusQueryFailure ==
    [][\A p \in Slots :
         (/\ req[p].pc \in {"idle", "done"} /\ req'[p] # req[p]
          /\ req'[p].op = "status" /\ req'[p].applicant # 0
          /\ req'[p].review = "")
         => /\ req'[p].pc = "done" /\ req'[p].resp = "status_error"
            /\ ~req'[p].wrote /\ ~req'[p].audited
            /\ users' = users]_vars

\* the query failing for a PENDING identity
C18_Witness ==
    \E p \in Slots :
        /\ req[p].op = "status" /\ Done(p) /\ req[p].resp = "status_error"
        /\ req[p].seen_status = "PENDING"
        /\ users[req[p].user].kyc_status = "PENDING"
        /\ users[req[p].user].applicant_id = req[p].applicant

\* the answers with an error status (4xx, 5xx)
ErrorResponses ==
    {"unauthorized", "config_invalid", "init_error", "token_error",
     "status_error", "internal_error", "invalid_biohash", "address_mismatch",
     "kyc_not_approved", "mint_error", "invalid_signature",
     "applicant_required", "user_not_found"}

\* C19: an init, status, mint or webhook request that is answered with an
\* error has committed no change to the record.
C19_ErrorLeavesRecord ==
    \A p \in Slots :
        (/\ req[p].op \in {"init", "status", "mint", "webhook"} /\ Done(p)
         /\ req[p].resp \in ErrorResponses)
        => ~req[p].wrote

\* C20: a record holds neither a raw bio hash nor key material derived from
\* one: its fingerprint column is empty or a sha256 digest, its address column
\* is empty or a derived address, and every other column is a status, an
\* applicant id, a token id or a transaction hash.
C20_NoRawBiometricStored ==
    \A u \in Users :
        /\ DOMAIN users[u] = {"kyc_status", "applicant_id", "bio_hash_fingerprint",
                              "wallet_address", "nft_token_id", "nft_tx_hash"}
        /\ users[u].kyc_status \in {"NULL", "PENDING", "COMPLETED", "REJECTED"}
        /\ users[u].applicant_id \in Nat
        /\ users[u].nft_token_id \in Nat
        /\ users[u].nft_tx_hash \in Nat
        /\ \/ users[u].bio_hash_fingerprint = NoFingerprint
           \/ \E b \in BioHashes : users[u].bio_hash_fingerprint = sha256(b)
        /\ \/ users[u].wallet_address = NoAddress
           \/ \E b \in BioHashes :
                 users[u].wallet_address = generate_deterministic_address(b)

\* a record written by init, by status or webhook, and by mint
C20_Witness ==
    \E u \in Users :
        /\ users[u].applicant_id # 0 /\ users[u].kyc_status = "COMPLETED"
        /\ users[u].bio_hash_fingerprint = sha256(bio[u])
        /\ users[u].wallet_address = generate_deterministic_address(bio[u])
        /\ users[u].nft_token_id # 0 /\ users[u].nft_tx_hash # 0

C22_ShortHashNeverDerived ==
    /\ \A p \in Slots :
          (req[p].bio_hash # "" /\ ~validate_bio_hash(req[p].bio_hash))
          => Done(p) /\ req[p].resp = "invalid_biohash"
    /\ \A u \in Users :
          users[u].wallet_address # generate_deterministic_address(BioShort)

\* C23: for a bio hash of valid length, a mint request is answered
\* address_mismatch exactly when its wallet address is not the address
\* derived from the bio hash, in whatever letter case it is written.
C23_ValidationAgreesWithDerivation ==
    [][\A p \in Slots :
         (MintTaken(p) /\ validate_bio_hash(req'[p].bio_hash))
         => ((req'[p].resp = "address_mismatch")
             <=> (req'[p].wallet.key
                    # generate_deterministic_address(req'[p].bio_hash).key))]_vars

\* the derived address in upper case accepted for a COMPLETED record, and a
\* foreign address rejected
C23_Witness ==
    \E p \in Slots :
        /\ req[p].op = "mint" /\ req[p].wallet.cs = "upper"
        /\ req[p].seen_status = "COMPLETED" /\ req[p].resp # "address_mismatch"
        /\ req[Other(p)].op = "mint" /\ req[Other(p)].resp = "address_mismatch"
        /\ req[Other(p)].bio_hash = req[p].bio_hash

\* the step in which worker p takes a request of the given operation
Taken(p, op) ==
    /\ req[p].pc \in {"idle", "done"} /\ req'[p] # req[p] /\ req'[p].op = op

\* C24: setup answers with a secret and exactly 8 backup codes; with MFA
\* enabled with them, a time-based code of the secret within the window
\* verifies, and each of the codes the record was enabled with verifies when
\* it is presented for the first time since.
C24_SetupCodesVerify ==
    [][\A p \in Slots :
         /\ (Taken(p, "setup") /\ req'[p].resp = "setup")
            => /\ req'[p].secret # 0
               /\ Len(req'[p].codes) = 8
               /\ Cardinality({req'[p].codes[i] : i \in 1..Len(req'[p].codes)}) = 8
         /\ (Taken(p, "verify") /\ mfa[req'[p].user].mfa_enabled)
            => LET u == req'[p].user
                   t == req'[p].mfa_token
               IN  /\ (t.kind = "totp" /\ t.v = mfa[u].mfa_secret /\ t.x <= 1)
                      => req'[p].pc = "done" /\ req'[p].resp = "totp"
                   /\ (/\ t.kind = "code" /\ <<u, t.kind, t.v>> \notin spent
                       /\ \E i \in DOMAIN mfa[u].issued : t = mfa[u].issued[i])
                      => req'[p].pc = "remove_used_backup_code"]_vars

\* C25: once an identity is REJECTED, no webhook delivery or status query
\* for the same applicant id moves it to COMPLETED.
C25_RejectedIsTerminal ==
    [][\A u \in Users :
         (/\ users[u].kyc_status = "REJECTED"
          /\ users'[u].applicant_id = users[u].applicant_id)
         => users'[u].kyc_status # "COMPLETED"]_vars

\* C26: a COMPLETED record holds a fingerprint and a wallet address computed
\* from one biometric hash, written in the step that sets the status; a
\* completed signal without a biometric hash is answered with no write.
C26_CompletedHoldsDerivedPair ==
    [][/\ \A u \in Users :
            users'[u].kyc_status = "COMPLETED"
            => \E h \in {BioA, BioB, BioShort} :
                  /\ users'[u].bio_hash_fingerprint = sha256(h)
                  /\ users'[u].wallet_address = generate_deterministic_address(h)
       /\ \A u \in Users :
            (users[u].kyc_status # "COMPLETED" /\ users'[u].kyc_status = "COMPLETED")
            => \E p \in Slots :
                  /\ req[p].pc \in {"status_update", "webhook_update"}
                  /\ req[p].user = u /\ req'[p].wrote
                  /\ users'[u].bio_hash_fingerprint = sha256(req[p].bio_hash)
                  /\ users'[u].wallet_address =
                        generate_deterministic_address(req[p].bio_hash)
       /\ \A p \in Slots :
            (/\ Taken(p, "status") \/ Taken(p, "webhook")
             /\ req'[p].review = "completed" /\ req'[p].bio_hash = "")
            => req'[p].pc = "done" /\ ~req'[p].wrote /\ users' = users]_vars

\* a record completed by a webhook after the other worker's completed signal,
\* for which the provider gave no hash, was answered without a write
C26_Witness ==
    \E p \in Slots :
        /\ req[p].op = "webhook" /\ Done(p) /\ req[p].wrote
        /\ req[p].review = "completed"
        /\ users[req[p].user].kyc_status = "COMPLETED"
        /\ users[req[p].user].bio_hash_fingerprint = sha256(req[p].bio_hash)
        /\ req[Other(p)].op = "status" /\ req[Other(p)].review = "completed"
        /\ req[Other(p)].resp = "no_biohash" /\ ~req[Other(p)].wrote

\* C27: no two identity records hold the same fingerprint; a completed signal
\* that would give a second record a fingerprint another record holds does
\* not leave both holding it.
C27_FingerprintUnique ==
    \A u, v \in Users :
        (u # v /\ users[u].bio_hash_fingerprint # NoFingerprint)
        => users[u].bio_hash_fingerprint # users[v].bio_hash_fingerprint

\* a completed signal for the second identity was refused its UPDATE while the
\* first identity holds the fingerprint of the same biometric hash
C27_Witness ==
    \E p \in Slots :
        /\ req[p].op \in {"status", "webhook"} /\ Done(p)
        /\ req[p].review = "completed" /\ req[p].resp = "internal_error"
        /\ \E v \in Users :
              /\ v # req[p].user
              /\ users[v].bio_hash_fingerprint = sha256(req[p].bio_hash)
        /\ users[req[p].user].bio_hash_fingerprint = NoFingerprint

\* C28: a token that passes the time-based check is answered with method totp
\* in the step that read the record, with the stored backup codes unchanged
\* and never handed to the removal; the backup codes are tried only for a
\* token that failed the time-based check.
C28_TotpFirst ==
    [][\A p \in Slots :
         (Taken(p, "verify") /\ mfa[req'[p].user].mfa_enabled)
         => LET u == req'[p].user
                t == req'[p].mfa_token
                totp_ok == t.kind = "totp" /\ t.v = mfa[u].mfa_secret /\ t.x <= 1
            IN  /\ totp_ok => /\ req'[p].pc = "done" /\ req'[p].resp = "totp"
                              /\ ~req'[p].wrote /\ req'[p].hashed_codes = <<>>
                              /\ mfa'[u].backup_codes = mfa[u].backup_codes
                /\ req'[p].resp = "totp" => totp_ok
                /\ req'[p].pc = "remove_used_backup_code" => ~totp_ok]_vars

\* a time-based code accepted while 7 backup codes are left in the store
C28_Witness ==
    \E p \in Slots :
        /\ req[p].op = "verify" /\ Done(p) /\ req[p].resp = "totp"
        /\ req[p].mfa_token.x = 1
        /\ Len(mfa[req[p].user].backup_codes) = 7
        /\ ~req[p].wrote

\* the hashes of a stored list
Stored(hashed_codes) == {hashed_codes[i] : i \in DOMAIN hashed_codes}

\* C29: the removal after a successful backup-code verification takes exactly
\* the hash of the presented code out of the stored set and leaves every other
\* stored hash in place.
C29_RemovesExactlyUsed ==
    [][\A p \in Slots :
         (req[p].pc = "remove_used_backup_code" /\ req'[p] # req[p])
         => LET u == req[p].user
            IN  Stored(mfa'[u].backup_codes) =
                   Stored(mfa[u].backup_codes)
                      \ {hashpw(clean_code(req[p].mfa_token))}]_vars

\* C30: one mint request submits at most one transaction; on a receipt with a
\* non-success status it answers failure without submitting again, and the
\* identity record is left without a token id.
C30_FailedReceiptIsFinal ==
    [][\A p \in Slots :
         /\ (req[p].pc = "mint_send" /\ req'[p].sent) => ~req[p].sent
         /\ (/\ req[p].pc = "mint_wait" /\ req'[p] # req[p]
             /\ req[p].tx <= Len(chain) /\ ~chain[req[p].tx].ok)
            => /\ req'[p].pc = "done" /\ req'[p].resp = "mint_error"
               /\ ~req'[p].wrote
               /\ users'[req[p].user].nft_token_id = 0]_vars

\* C31: the gas limit of the mint transaction is floor(1.2 x estimate) when
\* the estimation answered and 500000 when it raised; either way the request
\* goes on to send, and the transaction sent carries that limit.
C31_GasLimit ==
    [][\A p \in Slots :
         /\ (req[p].pc = "mint_nonce" /\ req'[p] # req[p])
            => /\ req'[p].pc = "mint_send"
               /\ req'[p].gas_limit =
                     IF req'[p].gas_estimate = 0 THEN 500000
                     ELSE (6 * req'[p].gas_estimate) \div 5
         /\ (req[p].pc = "mint_send" /\ req'[p].sent)
            => pending'[1].gas = req[p].gas_limit]_vars

\* a transaction mined with the default limit after the estimation raised,
\* next to one that is waiting with the margin on an estimate of 100001
C31_Witness ==
    /\ Len(chain) = 1 /\ chain[1].gas = 500000
    /\ pending # <<>> /\ pending[1].gas = 120001

\* C32: with the ledger configuration missing the mint answers failure before
\* the ledger is read or written, and the identity record is unchanged.
C32_NotConfiguredFailsFirst ==
    [][\A p \in Slots :
         (/\ req[p].pc = "mint_query" /\ req'[p] # req[p]
          /\ req'[p].error = "not_configured")
         => /\ req'[p].pc = "done" /\ req'[p].resp = "mint_error"
            /\ req'[p].q = "" /\ req'[p].nonce = 0 /\ req'[p].gas_limit = 0
            /\ ~req'[p].sent /\ ~req'[p].wrote /\ req'[p].token = 0
            /\ users' = users /\ chain' = chain /\ pending' = pending]_vars

\* a mint refused for missing configuration on a COMPLETED record that holds
\* no token id, while the ledger holds nothing
C32_Witness ==
    \E p \in Slots :
        /\ req[p].op = "mint" /\ Done(p) /\ req[p].error = "not_configured"
        /\ users[req[p].user].kyc_status = "COMPLETED"
        /\ users[req[p].user].nft_token_id = 0
        /\ chain = <<>> /\ pending = <<>>

\* C33: a status query that finds the record COMPLETED writes nothing to the
\* record and emits no audit event, whatever the provider answers.
C33_StatusRepeatWritesNothing ==
    \A p \in Slots :
        (req[p].op = "status" /\ req[p].seen_status = "COMPLETED")
        => /\ Done(p) /\ ~req[p].wrote /\ ~req[p].audited

\* the status query repeated with the provider's completed answer after the
\* query that completed the record
C33_Witness ==
    \E f, s \in Slots :
        /\ Sequential(f, s)
        /\ req[f].op = "status" /\ req[f].user = req[s].user
        /\ req[f].wrote /\ req[f].resp = "ready_for_mint"
        /\ req[s].op = "status" /\ req[s].seen_status = "COMPLETED"
        /\ req[s].review = "completed" /\ req[s].resp = "ready_for_mint"
        /\ req[s].bio_hash = req[f].bio_hash

\* C34: a record that holds a minted token id has kyc status COMPLETED.
C34_MintedStaysCompleted ==
    \A u \in Users :
        users[u].nft_token_id # 0 => users[u].kyc_status = "COMPLETED"

\* the ledger holds a confirmed mint transaction of identity u
Confirmed(u) == \E i \in 1..Len(chain) : chain[i].ok /\ chain[i].user = u

\* C35: once a mint transaction of an identity is confirmed on the ledger, a
\* valid mint request of that identity is answered with the token id and
\* not with an error (the only answer with that token id is the one taken
\* from the record, since a request that goes on mints anew or fails).
C35_ConfirmedMintIsReturned ==
    [][\A p \in Slots :
         (/\ Taken(p, "mint")
          /\ req'[p].resp \notin {"unauthorized", "invalid_biohash",
                                  "address_mismatch", "kyc_not_approved"}
          /\ Confirmed(req'[p].user))
         => /\ req'[p].pc = "done" /\ req'[p].resp = "already_minted"
            /\ req'[p].token # 0]_vars

\* the request handed a signed transaction to send_raw_transaction: the node
\* took it, or the call raised
Submitted(p) ==
    /\ req[p].op = "mint"
    /\ req[p].sent \/ req[p].error = "send_raised"

\* C36: two mint requests that run concurrently never submit transactions
\* that carry the same nonce of the minter account.
C36_ConcurrentNoncesDiffer ==
    (Overlapping /\ Submitted(1) /\ Submitted(2))
    => req[1].nonce # req[2].nonce

\* C37: after two overlapping verifications of one user that both succeeded
\* with two different backup codes, neither code's hash is in the stored set.
C37_BothRemovalsKept ==
    (/\ Overlapping /\ Done(1) /\ Done(2)
     /\ req[1].op = "verify" /\ req[2].op = "verify"
     /\ req[1].user = req[2].user
     /\ req[1].resp = "backup_code" /\ req[2].resp = "backup_code"
     /\ clean_code(req[1].mfa_token) # clean_code(req[2].mfa_token))
    => \A p \in Slots :
          ~verify_backup_code(req[p].mfa_token, mfa[req[p].user].backup_codes)

\* C38: for a user whose MFA is enabled, a setup or verify-setup request
\* leaves the stored secret and the stored backup codes as they were.
C38_SetupKeepsEnabledMfa ==
    [][\A p \in Slots :
         (/\ Taken(p, "setup") \/ Taken(p, "verify_setup")
          /\ mfa[req'[p].user].mfa_enabled)
         => LET u == req'[p].user
            IN  /\ mfa'[u].mfa_secret = mfa[u].mfa_secret
                /\ mfa'[u].backup_codes = mfa[u].backup_codes]_vars

\* C39: a login ends with a credential whose MFA claim is true only in the
\* step in which verify_user_mfa accepted the presented code (after the
\* password was accepted); a login of an MFA-enabled user without a code
\* issues only a credential with the claim false, and a login refused for
\* its code or its password issues none.
C39_MfaClaimOnlyAfterMfa ==
    [][/\ \A p \in Slots :
            LET u == req'[p].user
                t == req'[p].mfa_token
            IN  /\ (/\ req'[p] # req[p] /\ req'[p].op = "login"
                    /\ req'[p].pc = "done" /\ req'[p].mfa_verified)
                   => /\ req'[p].resp = "login"
                      /\ \/ /\ req[p].pc = "verify_user_mfa"
                            /\ mfa[u].mfa_enabled
                            /\ t.kind = "totp" /\ t.v = mfa[u].mfa_secret
                            /\ t.x <= 1
                         \/ /\ req[p].pc = "remove_used_backup_code"
                            /\ t.kind = "code"
                            /\ hashpw(clean_code(t)) \in Stored(req[p].hashed_codes)
                      /\ tokens' = tokens \cup {generate_token(u, TRUE)}
                /\ (/\ Taken(p, "login") /\ mfa[u].mfa_enabled /\ t = NoToken
                    /\ req'[p].resp # "invalid_credentials")
                   => /\ req'[p].pc = "done" /\ req'[p].resp = "mfa_required"
                      /\ ~req'[p].mfa_verified
                      /\ tokens' = tokens \cup {generate_token(u, FALSE)}
                /\ (/\ req'[p] # req[p] /\ req'[p].op = "login"
                    /\ req'[p].resp \in {"invalid_mfa", "invalid_credentials"})
                   => tokens' = tokens
       /\ generate_token(1, TRUE) \in tokens' \ tokens
          => \E p \in Slots : /\ req'[p] # req[p] /\ req'[p].op = "login"
                              /\ req'[p].pc = "done" /\ req'[p].mfa_verified]_vars

\* a login completed with a backup code holds the credential with the MFA
\* claim, after a login without a code was answered with the challenge
C39_Witness ==
    \E f, s \in Slots :
        /\ Sequential(f, s)
        /\ req[f].op = "login" /\ req[f].resp = "mfa_required"
        /\ req[s].op = "login" /\ Done(s) /\ req[s].resp = "login"
        /\ req[s].mfa_verified /\ req[s].mfa_token = BackupCode(11)
        /\ generate_token(1, TRUE) \in tokens
====
